---- MODULE Spec2Model ----
(***************************************************************************)
(* Model of src/open_clip/transform.py: the AugmentationCfg record, the    *)
(* ResizeMaxSize module, the probabilistic color_jitter / gray_scale       *)
(* wrappers and the image_transform pipeline factory.                      *)
(*                                                                         *)
(* Python values are encoded uniformly as records [k, v, s]: k is the     *)
(* Python type, v a tuple of integers, s the text of a string.  A float f  *)
(* is written as the integer f * PDen, so PyFloat(PDen) is 1.0 and         *)
(* PyFloat(0) is 0.0.                                                      *)
(***************************************************************************)
EXTENDS Integers, Sequences, FiniteSets, TLC

VARIABLES rms, fwd, wrap, rng, tally, call, ret, run

vars == <<rms, fwd, wrap, rng, tally, call, ret, run>>

(* ------------------------------ bounds --------------------------------- *)
MaxDim  == 4   \* largest extent of an input image axis
MaxSize == 4   \* largest max_size given to ResizeMaxSize
PDen    == 2   \* probabilities and random draws are multiples of 1/PDen
MaxCalls == 3  \* calls made to one probabilistic wrapper
MaxKeys == 3   \* largest number of keys in an aug_cfg mapping

(* --------------------------- Python values ----------------------------- *)
PyNone      == [k |-> "None",  v |-> <<>>, s |-> ""]
PyInt(n)    == [k |-> "int",   v |-> <<n>>, s |-> ""]
PyFloat(n)  == [k |-> "float", v |-> <<n>>, s |-> ""]
PyBool(b)   == [k |-> "bool",  v |-> <<IF b THEN 1 ELSE 0>>, s |-> ""]
PyTuple(t)  == [k |-> "tuple", v |-> t, s |-> ""]
PyList(t)   == [k |-> "list",  v |-> t, s |-> ""]
PyStr(str)  == [k |-> "str",   v |-> <<>>, s |-> str]

IsNumber(x) == x.k \in {"int", "float", "bool"}
IsSeq(x)    == x.k \in {"tuple", "list"}

\* bool(x): None, zero numbers and empty sequences are falsy
Truthy(x) ==
    CASE x.k = "None" -> FALSE
      [] IsNumber(x)  -> x.v[1] # 0
      [] IsSeq(x)     -> Len(x.v) > 0
      [] OTHER        -> TRUE

\* x or y
PyOr(x, y) == IF Truthy(x) THEN x ELSE y

Max2(a, b) == IF a >= b THEN a ELSE b
Min2(a, b) == IF a <= b THEN a ELSE b

\* round(num / den) for num >= 0, den > 0: to nearest, ties to the even
\* neighbour.  Within the bounds used here the double-precision product
\* dim * scale of the source rounds to the same integer as the exact
\* quotient (the two first differ at max_size = 15).
PyRound(num, den) ==
    LET q == num \div den
        r == num % den
    IN  IF 2 * r > den THEN q + 1
        ELSE IF 2 * r < den THEN q
        ELSE IF q % 2 = 0 THEN q ELSE q + 1

(* ---------------------------- ResizeMaxSize ---------------------------- *)
NoObj == [made |-> FALSE, max_size |-> 0, fill |-> 0]

\* An image is a raster (PIL) image, size = <<width, height>>, or a tensor
\* whose shape is <<d0, d1, d2>>; the transform library treats the last two
\* tensor axes as height and width.
\* ops lists the colour operations applied to the pixels so far.
PilImage(w, h)       == [kind |-> "pil",    shape |-> <<w, h>>,    ops |-> <<>>]
TensorImage(a, b, c) == [kind |-> "tensor", shape |-> <<a, b, c>>, ops |-> <<>>]

Images ==
    {PilImage(w, h) : w \in 1..MaxDim, h \in 1..MaxDim}
    \cup {TensorImage(a, b, c) : a \in 1..MaxDim, b \in 1..MaxDim, c \in 1..MaxDim}

ImgHeight(img) == IF img.kind = "pil" THEN img.shape[2] ELSE img.shape[Len(img.shape) - 1]
ImgWidth(img)  == IF img.kind = "pil" THEN img.shape[1] ELSE img.shape[Len(img.shape)]

\* lines 42-45: the (height, width) forward reads from its argument
ReadHW(img) ==
    IF img.kind = "tensor" THEN <<img.shape[1], img.shape[2]>>
    ELSE <<img.shape[2], img.shape[1]>>

\* lines 46-47 with the scale taken over the shorter side
NewSizeMin(max_size, height, width) ==
    <<PyRound(height * max_size, Min2(height, width)),
      PyRound(width * max_size, Min2(height, width))>>

\* lines 46-47: new_size = (round(height*scale), round(width*scale)),
\* scale = max_size / max(height, width)
NewSize(max_size, height, width) ==
    <<PyRound(height * max_size, Max2(height, width)),
      PyRound(width * max_size, Max2(height, width))>>

\* F.resize(img, (h, w)): the library rejects an empty target
ResizeOk(size) == size[1] >= 1 /\ size[2] >= 1
FResize(img, size) ==
    IF img.kind = "pil" THEN [img EXCEPT !.shape = <<size[2], size[1]>>]
    ELSE [img EXCEPT !.shape = <<img.shape[1], size[1], size[2]>>]

\* line 53: [left, top, right, bottom]
PadAmounts(pad_h, pad_w) ==
    <<pad_w \div 2, pad_h \div 2, pad_w - pad_w \div 2, pad_h - pad_h \div 2>>

\* F.pad(img, [left, top, right, bottom])
FPad(img, p) ==
    IF img.kind = "pil"
    THEN [img EXCEPT !.shape = <<img.shape[1] + p[1] + p[3], img.shape[2] + p[2] + p[4]>>]
    ELSE [img EXCEPT !.shape = <<img.shape[1], img.shape[2] + p[2] + p[4],
                                 img.shape[3] + p[1] + p[3]>>]

NoPad == <<0, 0, 0, 0>>

\* The whole of forward, as a record of what it computed and returned.
ForwardResult(max_size, img) ==
    LET hw       == ReadHW(img)
        height   == hw[1]
        width    == hw[2]
        new_size == NewSize(max_size, height, width)
        scaled   == max_size # Max2(height, width)       \* scale != 1.0
        pads     == width # height
        img1     == IF scaled THEN FResize(img, new_size) ELSE img
        pad_h    == max_size - new_size[1]
        pad_w    == max_size - new_size[2]
        padding  == IF pads THEN PadAmounts(pad_h, pad_w) ELSE NoPad
        img2     == IF pads THEN FPad(img1, padding) ELSE img1
    IN  IF scaled /\ ~ResizeOk(new_size)
        THEN [status |-> "raised", max_size |-> max_size, img |-> img,
              new_size |-> new_size, resized |-> FALSE, padded |-> FALSE,
              padding |-> NoPad, out |-> img]
        ELSE [status |-> "returned", max_size |-> max_size, img |-> img,
              new_size |-> new_size, resized |-> scaled, padded |-> pads,
              padding |-> padding, out |-> img2]

FwdIdle == [status |-> "idle", max_size |-> 0, img |-> PilImage(1, 1),
            new_size |-> <<0, 0>>, resized |-> FALSE, padded |-> FALSE,
            padding |-> NoPad, out |-> PilImage(1, 1)]

(* ------------------- color_jitter and gray_scale ----------------------- *)
Wrappers == {"color_jitter", "gray_scale"}

\* the transform each wrapper holds in self.transf (lines 68, 84)
Transf(name) == IF name = "color_jitter" THEN "ColorJitter" ELSE "Grayscale"
ApplyTransf(name, img) == [img EXCEPT !.ops = Append(@, Transf(name))]

\* lines 66, 82: assert 0. <= p <= 1.
ProbOk(p) == 0 <= p /\ p <= PDen

\* random.random() returns a value in [0, 1)
Draws == 0..(PDen - 1)

\* lines 71, 87 with a non-strict comparison
TakesLe(r, p) == r <= p

\* lines 71, 87: random.random() < self.p
Takes(r, p) == r < p

NoWrap == [made |-> FALSE, p |-> 0]
NoTally == [calls |-> 0, invoked |-> 0, passthru |-> 0]

WrapInputs == {PilImage(1, 1), PilImage(2, 1)}

(* --------------------------- AugmentationCfg --------------------------- *)
Fields == {"scale", "ratio", "color_jitter", "interpolation", "re_prob",
           "re_count", "use_timm", "color_jitter_prob", "gray_scale_prob"}

\* lines 18-27: the field defaults; scale is (0.9, 1.0), written in tenths
FieldDefault(f) ==
    CASE f = "scale"    -> PyTuple(<<9, 10>>)
      [] f = "use_timm" -> PyBool(FALSE)
      [] OTHER          -> PyNone

\* AugmentationCfg(**d) taking any keyword
CfgAcceptsAll(d) == TRUE

\* AugmentationCfg(**d): a keyword that is not a field is a TypeError
CfgAccepts(d) == DOMAIN d \subseteq Fields
MakeCfg(d) == [f \in Fields |-> IF f \in DOMAIN d THEN d[f] ELSE FieldDefault(f)]

(* ------------------------- dictionary helpers -------------------------- *)
EmptyDict == [k \in {} |-> PyNone]
Pop(d, key) == [k \in DOMAIN d \ {key} |-> d[k]]
Get(d, key, dflt) == IF key \in DOMAIN d THEN d[key] ELSE dflt
SetDefault(d, key, val) ==
    [k \in DOMAIN d \cup {key} |-> IF k \in DOMAIN d THEN d[k] ELSE val]
Merge(d, e) ==
    [k \in DOMAIN d \cup DOMAIN e |-> IF k \in DOMAIN e THEN e[k] ELSE d[k]]

\* line 119: {k: v for k, v in asdict(aug_cfg).items() if v is not None}
NonNullDict(cfg) == [k \in {f \in DOMAIN cfg : cfg[f] # PyNone} |-> cfg[k]]

(* --------------------------- pipeline steps ---------------------------- *)
Bicubic == PyStr("bicubic")
Step(op, a) == [op |-> op, a |-> a]

ConvertToRgb == Step("_convert_to_rgb", EmptyDict)
ToTensor     == Step("ToTensor", EmptyDict)
Normalize(mean, std) == Step("Normalize", [mean |-> mean, std |-> std])
RandomResizedCrop(size, scale) ==
    Step("RandomResizedCrop", [size |-> size, scale |-> scale, interpolation |-> Bicubic])
ColorJitterStep(cj, p) == Step("color_jitter", [magnitude |-> cj, p |-> p])
GrayScaleStep(p)       == Step("gray_scale", [p |-> p])
ResizeMaxSizeStep(size, fill) ==
    Step("ResizeMaxSize", [max_size |-> size, interpolation |-> Bicubic, fill |-> fill])
ResizeStep(size)     == Step("Resize", [size |-> size, interpolation |-> Bicubic])
CenterCropStep(size) == Step("CenterCrop", [size |-> size])

\* constants.py: the reference statistics, written in hundredths
OPENAI_DATASET_MEAN == PyTuple(<<48, 46, 41>>)
OPENAI_DATASET_STD  == PyTuple(<<27, 26, 28>>)

\* lines 101-103 and 105-107: x = x or default; a scalar becomes (x,) * 3
StatOrDefault(x, dflt) ==
    LET y == PyOr(x, dflt)
    IN  IF IsSeq(y) THEN y ELSE PyTuple(<<y.v[1], y.v[1], y.v[1]>>)

\* lines 109-111
CollapseSize(size) ==
    IF IsSeq(size) /\ size.v[1] = size.v[2] THEN PyInt(size.v[1]) ELSE size

(* --------------------------- image_transform --------------------------- *)
\* line is the source line the exception comes from (0: none)
Raised(err, line, imported) ==
    [status |-> "raised", error |-> err, line |-> line, kind |-> "none", steps |-> <<>>,
     warned |-> FALSE, unused |-> {}, imported |-> imported, kwargs |-> EmptyDict]

Composed(steps, unused) ==
    [status |-> "returned", error |-> "", line |-> 0, kind |-> "Compose", steps |-> steps,
     warned |-> unused # {}, unused |-> unused, imported |-> FALSE,
     kwargs |-> EmptyDict]

FromTimm(kwargs) ==
    [status |-> "returned", error |-> "", line |-> 0, kind |-> "timm", steps |-> <<>>,
     warned |-> FALSE, unused |-> {}, imported |-> TRUE, kwargs |-> kwargs]

NotCalled ==
    [status |-> "idle", error |-> "", line |-> 0, kind |-> "none", steps |-> <<>>,
     warned |-> FALSE, unused |-> {}, imported |-> FALSE, kwargs |-> EmptyDict]

\* line 155 with the assertion left out
JitterCheckNone(cj) == "ok"

\* line 155: assert aug_cfg.color_jitter is not None and len(aug_cfg.color_jitter) == 4
JitterCheck(cj) ==
    IF cj = PyNone THEN "AssertionError"
    ELSE IF ~IsSeq(cj) THEN "TypeError"          \* len() of a number
    ELSE IF Len(cj.v) # 4 THEN "AssertionError"
    ELSE "ok"

\* lines 154-162 with the two wrappers appended in the other order
WrapperStepsSwapped(cfg) ==
    (IF Truthy(cfg.gray_scale_prob)
        THEN <<GrayScaleStep(cfg.gray_scale_prob)>> ELSE <<>>)
    \o (IF Truthy(cfg.color_jitter_prob)
        THEN <<ColorJitterStep(cfg.color_jitter, cfg.color_jitter_prob)>> ELSE <<>>)

\* lines 154-162: the wrapper steps, in the order they are appended
WrapperSteps(cfg) ==
    (IF Truthy(cfg.color_jitter_prob)
        THEN <<ColorJitterStep(cfg.color_jitter, cfg.color_jitter_prob)>> ELSE <<>>)
    \o (IF Truthy(cfg.gray_scale_prob)
        THEN <<GrayScaleStep(cfg.gray_scale_prob)>> ELSE <<>>)

\* lines 146-170: the built-in training pipeline; d is aug_cfg_dict after
\* use_timm was popped
BuiltinTrain(image_size, cfg, d, normalize) ==
    LET rest == Pop(d, "scale")
        jit  == Truthy(cfg.color_jitter_prob)
        gray == Truthy(cfg.gray_scale_prob)
    IN  IF "scale" \notin DOMAIN d THEN Raised("KeyError", 149, FALSE)
        ELSE IF jit /\ JitterCheck(cfg.color_jitter) # "ok"
            THEN Raised(JitterCheck(cfg.color_jitter), 155, FALSE)
        ELSE IF jit /\ ~ProbOk(cfg.color_jitter_prob.v[1])
            THEN Raised("AssertionError", 157, FALSE)    \* line 66
        ELSE IF gray /\ ~ProbOk(cfg.gray_scale_prob.v[1])
            THEN Raised("AssertionError", 161, FALSE)    \* line 82
        ELSE Composed(<<RandomResizedCrop(image_size, d["scale"]), ConvertToRgb>>
                      \o WrapperSteps(cfg) \o <<ToTensor, normalize>>,
                      DOMAIN rest)

\* lines 129-134 without the two pops
TimmOptionsKeep(d) ==
    SetDefault(SetDefault(d, "interpolation", PyStr("random")), "color_jitter", PyNone)

\* lines 129-134: the options handed on to the factory
TimmOptions(d) ==
    Pop(Pop(SetDefault(SetDefault(d, "interpolation", PyStr("random")),
                       "color_jitter", PyNone),
            "color_jitter_prob"),
        "gray_scale_prob")

\* lines 122-144: the delegated training pipeline
TimmTrain(image_size, d, mean, std, installed) ==
    LET input_size ==
            IF IsSeq(image_size)
            THEN PyTuple(<<3>> \o SubSeq(image_size.v, Len(image_size.v) - 1,
                                         Len(image_size.v)))
            ELSE PyTuple(<<3, image_size.v[1], image_size.v[1]>>)
    IN  IF ~installed THEN Raised("ImportError", 122, TRUE)
        ELSE IF image_size.k = "list" THEN Raised("TypeError", 125, TRUE) \* tuple + list
        ELSE FromTimm(Merge([input_size |-> input_size,
                             is_training |-> PyBool(TRUE),
                             hflip |-> PyFloat(0),
                             mean |-> mean,
                             std |-> std,
                             re_mode |-> PyStr("pixel")],
                            TimmOptions(d)))

\* lines 172-186 with the centre crop left out
EvalPipelineNoCrop(image_size, resize_longest_max, fill_color, normalize) ==
    IF resize_longest_max
    THEN IF image_size.k # "int" THEN Raised("TypeError", 174, FALSE)
         ELSE Composed(<<ResizeMaxSizeStep(image_size, fill_color),
                         ConvertToRgb, ToTensor, normalize>>, {})
    ELSE Composed(<<ResizeStep(image_size),
                    ConvertToRgb, ToTensor, normalize>>, {})

\* lines 172-186: the evaluation pipeline
EvalPipeline(image_size, resize_longest_max, fill_color, normalize) ==
    IF resize_longest_max
    THEN IF image_size.k # "int" THEN Raised("TypeError", 174, FALSE)  \* line 35
         ELSE Composed(<<ResizeMaxSizeStep(image_size, fill_color),
                         ConvertToRgb, ToTensor, normalize>>, {})
    ELSE Composed(<<ResizeStep(image_size), CenterCropStep(image_size),
                    ConvertToRgb, ToTensor, normalize>>, {})

\* lines 113-116
AugNone == [kind |-> "None", d |-> EmptyDict]
AugDict(d) == [kind |-> "dict", d |-> d]
AugCfg(c)  == [kind |-> "cfg", d |-> c]

\* lines 101-186: what image_transform returns or raises for arguments a;
\* installed tells whether the external augmentation library can be imported
ImageTransform(a, installed) ==
    LET mean == StatOrDefault(a.mean, OPENAI_DATASET_MEAN)
        std  == StatOrDefault(a.std, OPENAI_DATASET_STD)
        image_size == CollapseSize(a.image_size)
        cfg  == CASE a.aug_cfg.kind = "dict" -> MakeCfg(a.aug_cfg.d)
                  [] a.aug_cfg.kind = "cfg"  -> a.aug_cfg.d
                  [] OTHER                   -> MakeCfg(EmptyDict)
        normalize == Normalize(mean, std)
        aug_cfg_dict == NonNullDict(cfg)
        use_timm == Get(aug_cfg_dict, "use_timm", PyBool(FALSE))
        d == Pop(aug_cfg_dict, "use_timm")
    IN  IF a.aug_cfg.kind = "dict" /\ ~CfgAccepts(a.aug_cfg.d)
            THEN Raised("TypeError", 114, FALSE)
        ELSE IF a.is_train
            THEN IF Truthy(use_timm)
                 THEN TimmTrain(image_size, d, mean, std, installed)
                 ELSE BuiltinTrain(image_size, cfg, d, normalize)
        ELSE EvalPipeline(image_size, a.resize_longest_max, a.fill_color, normalize)

(* ------------------------- calling a pipeline -------------------------- *)
ErrImage == [kind |-> "error", shape |-> <<>>, ops |-> <<>>]

\* the <<width, height>> a size argument of the library stands for
StepSize(size) ==
    IF IsSeq(size) THEN <<size.v[2], size.v[1]>> ELSE <<size.v[1], size.v[1]>>

\* Resize(size): a pair is the exact target, an int the length of the
\* shorter edge (the longer one is int(size * long / short))
ResizeOut(size, img) ==
    LET w == img.shape[1]
        h == img.shape[2]
        S == size.v[1]
    IN  IF IsSeq(size) THEN StepSize(size)
        ELSE IF w <= h THEN <<S, (S * h) \div w>>
        ELSE <<(S * w) \div h, S>>

\* Normalize rejects a zero std and statistics that do not fit 3 channels
NormalizeOk(mean, std) ==
    /\ Len(mean.v) \in {1, 3}
    /\ Len(std.v) \in {1, 3}
    /\ \A i \in 1..Len(std.v) : std.v[i] # 0

\* one step of a Compose applied to a raster image; r holds the random
\* draws of the color_jitter and of the gray_scale step
RunStep(st, img, r) ==
    CASE st.op = "RandomResizedCrop" -> [img EXCEPT !.shape = StepSize(st.a.size)]
      [] st.op = "_convert_to_rgb"   -> img
      [] st.op = "color_jitter"      ->
            IF Takes(r[1], st.a.p.v[1]) THEN ApplyTransf("color_jitter", img) ELSE img
      [] st.op = "gray_scale"        ->
            IF Takes(r[2], st.a.p.v[1]) THEN ApplyTransf("gray_scale", img) ELSE img
      [] st.op = "ToTensor"          ->
            [img EXCEPT !.kind = "tensor", !.shape = <<3, img.shape[2], img.shape[1]>>]
      [] st.op = "Normalize"         ->
            IF NormalizeOk(st.a.mean, st.a.std) THEN img ELSE ErrImage
      [] st.op = "ResizeMaxSize"     ->
            LET f == ForwardResult(st.a.max_size.v[1], img)
            IN  IF f.status = "returned" THEN f.out ELSE ErrImage
      [] st.op = "Resize"            -> [img EXCEPT !.shape = ResizeOut(st.a.size, img)]
      [] st.op = "CenterCrop"        -> [img EXCEPT !.shape = StepSize(st.a.size)]
      [] OTHER                       -> ErrImage

\* Compose.__call__: the steps from index i on, in order
RECURSIVE RunFrom(_, _, _, _)
RunFrom(steps, i, img, r) ==
    IF i > Len(steps) \/ img = ErrImage THEN img
    ELSE RunFrom(steps, i + 1, RunStep(steps[i], img, r), r)

\* number of random.random() draws one call of the pipeline makes
WrapperCount(steps) ==
    Cardinality({i \in 1..Len(steps) : steps[i].op \in Wrappers})

NotRun == [status |-> "idle", img |-> PilImage(1, 1), out |-> PilImage(1, 1)]

(* ------------------------------- inputs -------------------------------- *)
\* the probabilities an aug_cfg carries: 0.0, 1.0 and a value above 1
CfgProbs == {PyFloat(0), PyFloat(PDen), PyFloat(PDen + 1)}

Absent == [k |-> "absent", v |-> <<>>, s |-> ""]

AllKeys == Fields \cup {"hflip"}

\* one value, or Absent, for every key of a mapping
KeyChoices ==
    [scale             : {Absent, PyNone, PyTuple(<<8, 10>>)},
     ratio             : {Absent, PyTuple(<<3, 4>>)},
     color_jitter      : {Absent, PyFloat(1), PyTuple(<<4, 4, 4>>), PyTuple(<<4, 4, 4, 1>>)},
     interpolation     : {Absent, PyStr("bilinear")},
     re_prob           : {Absent, PyFloat(1)},
     re_count          : {Absent, PyInt(1)},
     use_timm          : {Absent, PyBool(TRUE)},
     color_jitter_prob : {Absent} \cup CfgProbs,
     gray_scale_prob   : {Absent} \cup CfgProbs,
     hflip             : {Absent, PyFloat(1)}]

DictOf(c) == [k \in {x \in AllKeys : c[x] # Absent} |-> c[k]]

Dicts == {d \in {DictOf(c) : c \in KeyChoices} : Cardinality(DOMAIN d) <= MaxKeys}

AugCfgs ==
    {AugNone} \cup {AugDict(d) : d \in Dicts}
    \cup {AugCfg(MakeCfg(d)) : d \in {e \in Dicts : CfgAccepts(e)}}

ImageSizes == {PyInt(2), PyInt(3), PyTuple(<<2, 2>>), PyTuple(<<2, 3>>),
               PyList(<<3, 2>>)}

Stats == {PyNone, PyFloat(0), PyFloat(1), PyTuple(<<0, 0, 0>>),
          PyList(<<1, 1, 1>>)}

Args(sizes, stats, augs) ==
    [image_size : sizes, is_train : BOOLEAN, mean : stats, std : stats,
     resize_longest_max : BOOLEAN, fill_color : {PyInt(0), PyInt(1)},
     aug_cfg : augs]

\* every aug_cfg, default statistics
BuildArgs == Args(ImageSizes, {PyNone}, AugCfgs)

\* every mean and std, the aug_cfg left out or asking for the delegate
NormArgs == Args({PyInt(2)}, Stats,
                 {AugNone, AugDict([use_timm |-> PyBool(TRUE)])})

RunImages == {PilImage(1, 2), PilImage(3, 2), PilImage(2, 2)}

NoCall == [image_size |-> PyNone, is_train |-> FALSE, mean |-> PyNone,
           std |-> PyNone, resize_longest_max |-> FALSE, fill_color |-> PyInt(0),
           aug_cfg |-> AugNone]

(* ------------------------------- actions ------------------------------- *)
Init ==
    /\ rms = NoObj
    /\ fwd = FwdIdle
    /\ wrap = [w \in Wrappers |-> NoWrap]
    /\ rng = 0
    /\ tally = [w \in Wrappers |-> NoTally]
    /\ call = NoCall
    /\ ret = NotCalled
    /\ run = NotRun

\* ResizeMaxSize.__init__ (lines 32-39) with an int max_size
RmsInit(m, fill) ==
    /\ ~rms.made
    /\ rms' = [made |-> TRUE, max_size |-> m, fill |-> fill]
    /\ UNCHANGED <<fwd, wrap, rng, tally, call, ret, run>>

\* ResizeMaxSize.forward (lines 41-54)
Forward(img) ==
    /\ rms.made
    /\ fwd.status = "idle"
    /\ fwd' = ForwardResult(rms.max_size, img)
    /\ UNCHANGED <<rms, wrap, rng, tally, call, ret, run>>

\* color_jitter.__init__ / gray_scale.__init__ (lines 65-68, 81-84)
WrapInit(name, p) ==
    /\ ~wrap[name].made
    /\ ProbOk(p)
    /\ wrap' = [wrap EXCEPT ![name] = [made |-> TRUE, p |-> p]]
    /\ UNCHANGED <<rms, fwd, rng, tally, call, ret, run>>

\* color_jitter.__call__ / gray_scale.__call__ (lines 70-74, 86-90);
\* r is the value random.random() returns
WrapCall(name, img, r) ==
    /\ wrap[name].made
    /\ tally[name].calls < MaxCalls
    /\ LET taken == Takes(r, wrap[name].p)
           out   == IF taken THEN ApplyTransf(name, img) ELSE img
       IN  tally' = [tally EXCEPT ![name] =
                        [calls    |-> @.calls + 1,
                         invoked  |-> @.invoked + (IF taken THEN 1 ELSE 0),
                         passthru |-> @.passthru + (IF out = img THEN 1 ELSE 0)]]
    /\ rng' = rng + 1
    /\ UNCHANGED <<rms, fwd, wrap, call, ret, run>>

\* image_transform (lines 92-186)
Build(a, installed) ==
    /\ ret.status = "idle"
    /\ call' = a
    /\ ret' = ImageTransform(a, installed)
    /\ UNCHANGED <<rms, fwd, wrap, rng, tally, run>>

\* the returned Compose called on one raster image
Apply(img, r) ==
    /\ ret.status = "returned"
    /\ ret.kind = "Compose"
    /\ run.status = "idle"
    /\ LET out == RunFrom(ret.steps, 1, img, r)
       IN  run' = [status |-> IF out = ErrImage THEN "raised" ELSE "returned",
                   img |-> img, out |-> out]
    /\ rng' = rng + WrapperCount(ret.steps)
    /\ UNCHANGED <<rms, fwd, wrap, tally, call, ret>>

NextResize ==
    \/ \E m \in 1..MaxSize, fill \in {0, 1} : RmsInit(m, fill)
    \/ fwd.status = "idle" /\ \E img \in Images : Forward(img)

NextWrap ==
    \/ \E name \in Wrappers, p \in (-1)..(PDen + 1) : WrapInit(name, p)
    \/ \E name \in Wrappers, img \in WrapInputs, r \in Draws : WrapCall(name, img, r)

NextBuild ==
    \/ ret.status = "idle" /\ \E a \in BuildArgs, installed \in BOOLEAN : Build(a, installed)
    \/ run.status = "idle" /\ \E img \in RunImages, r \in Draws \X Draws : Apply(img, r)

NextNorm ==
    \/ ret.status = "idle" /\ \E a \in NormArgs, installed \in BOOLEAN : Build(a, installed)
    \/ run.status = "idle" /\ \E img \in RunImages, r \in Draws \X Draws : Apply(img, r)

SpecResize == Init /\ [][NextResize]_vars
SpecWrap   == Init /\ [][NextWrap]_vars
SpecBuild  == Init /\ [][NextBuild]_vars
SpecNorm   == Init /\ [][NextNorm]_vars

(* ============================== properties ============================= *)
\* the AugmentationCfg the recorded call works with
CallCfg ==
    IF call.aug_cfg.kind = "cfg" THEN call.aug_cfg.d ELSE MakeCfg(call.aug_cfg.d)

Built == ret.status # "idle"

\* C1: for every max_size M >= 1 and every input image (raster or tensor),
\* forward returns an image whose height and width are both exactly M.
C1_ForwardAlwaysSquare ==
    fwd.status # "idle" =>
        /\ fwd.status = "returned"
        /\ ImgHeight(fwd.out) = fwd.max_size
        /\ ImgWidth(fwd.out) = fwd.max_size

\* C2: whenever forward pads, the pad amounts are left = pad_w//2,
\* top = pad_h//2, right = pad_w - pad_w//2, bottom = pad_h - pad_h//2 with
\* pad_h = max_size - new_height and pad_w = max_size - new_width; all four
\* are non-negative, left + right = pad_w, top + bottom = pad_h, and
\* right - left and bottom - top are each 0 or 1.
C2_PadAmounts ==
    fwd.padded =>
        LET pad_h == fwd.max_size - fwd.new_size[1]
            pad_w == fwd.max_size - fwd.new_size[2]
            left   == fwd.padding[1]
            top    == fwd.padding[2]
            right  == fwd.padding[3]
            bottom == fwd.padding[4]
        IN  /\ ReadHW(fwd.img)[1] # ReadHW(fwd.img)[2]
            /\ left = pad_w \div 2 /\ top = pad_h \div 2
            /\ right = pad_w - pad_w \div 2 /\ bottom = pad_h - pad_h \div 2
            /\ left >= 0 /\ top >= 0 /\ right >= 0 /\ bottom >= 0
            /\ left + right = pad_w /\ top + bottom = pad_h
            /\ right - left \in {0, 1} /\ bottom - top \in {0, 1}

\* a resized image padded by an odd amount: the extra pixel goes right
C2_Witness ==
    /\ fwd.padded /\ fwd.resized
    /\ fwd.padding[3] - fwd.padding[1] = 1
    /\ fwd.padding[1] >= 1

\* C3: a wrapper built with p = 0 returns its input unchanged on every call
\* and never invokes the wrapped transform, a wrapper built with p = 1
\* invokes it on every call, and every call consumes exactly one draw.
C3_ProbabilityEnds ==
    /\ \A w \in Wrappers :
          wrap[w].made =>
            /\ wrap[w].p = 0 =>
                  tally[w].invoked = 0 /\ tally[w].passthru = tally[w].calls
            /\ wrap[w].p = PDen =>
                  tally[w].invoked = tally[w].calls /\ tally[w].passthru = 0
    /\ rng = tally["color_jitter"].calls + tally["gray_scale"].calls

\* a p = 0 color_jitter and a p = 1 gray_scale, each called more than once
C3_Witness ==
    /\ wrap["color_jitter"].made /\ wrap["color_jitter"].p = 0
    /\ tally["color_jitter"].calls >= 2
    /\ wrap["gray_scale"].made /\ wrap["gray_scale"].p = PDen
    /\ tally["gray_scale"].calls >= 2

\* the call asks for training, sets color_jitter_prob, and its color_jitter
\* is missing or is not a 4-tuple
JitterMisuse ==
    /\ Built /\ call.is_train
    /\ CallCfg.color_jitter_prob # PyNone
    /\ ~(CallCfg.color_jitter.k = "tuple" /\ Len(CallCfg.color_jitter.v) = 4)

\* C4 as stated: every training build with color_jitter_prob set and
\* color_jitter missing or not a 4-tuple fails at build time and returns no
\* pipeline, so that no image is processed (any exception raised by the
\* build is taken here for the failure the claim asks for).
C4_JitterMisuseFails ==
    JitterMisuse => ret.status = "raised" /\ run.status = "idle"

\* C4 amended: a training build with use_timm unset or false whose
\* color_jitter_prob is set and nonzero and whose color_jitter is missing or does not have length
\* 4 raises and returns no pipeline, so no image is processed; when the
\* aug_cfg is otherwise valid (known keys, scale not None) the error is the
\* assertion error of line 155 for None or a sequence of another length,
\* and the TypeError of len() for a scalar.
C4_BuiltinJitterMisuseFails ==
    (/\ Built /\ call.is_train
     /\ ~Truthy(CallCfg.use_timm)
     /\ Truthy(CallCfg.color_jitter_prob)
     /\ ~(IsSeq(CallCfg.color_jitter) /\ Len(CallCfg.color_jitter.v) = 4))
    => /\ ret.status = "raised"
       /\ run.status = "idle"
       /\ (CfgAccepts(call.aug_cfg.d) /\ CallCfg.scale # PyNone) =>
             /\ ret.line = 155
             /\ ret.error = IF IsNumber(CallCfg.color_jitter)
                            THEN "TypeError" ELSE "AssertionError"

\* a built-in training build refused for a 3-tuple color_jitter
C4_Witness ==
    /\ Built /\ call.is_train
    /\ ~Truthy(CallCfg.use_timm)
    /\ Truthy(CallCfg.color_jitter_prob)
    /\ CallCfg.color_jitter = PyTuple(<<4, 4, 4>>)
    /\ ret.error = "AssertionError" /\ ret.line = 155

\* C5: a mapping aug_cfg with a key outside the nine option names makes the
\* build fail with the configuration error and return no pipeline, whatever
\* the other arguments; a mapping with only those keys never fails that way.
C5_UnknownKeyFails ==
    Built =>
        LET unknown == call.aug_cfg.kind = "dict" /\ ~(DOMAIN call.aug_cfg.d \subseteq Fields)
        IN  /\ unknown => ret.status = "raised" /\ ret.error = "TypeError"
                          /\ ret.steps = <<>> /\ run.status = "idle"
            /\ unknown <=> ret.line = 114

\* an evaluation build with resize_longest_max refused for an unknown key
C5_Witness ==
    /\ Built /\ ~call.is_train /\ call.resize_longest_max
    /\ call.aug_cfg.kind = "dict" /\ "hflip" \in DOMAIN call.aug_cfg.d
    /\ ret.line = 114

\* the options the built-in training pipeline made a step from
AppliedOptions ==
    {"scale"}
    \cup (IF \E i \in 1..Len(ret.steps) : ret.steps[i].op = "color_jitter"
          THEN {"color_jitter", "color_jitter_prob"} ELSE {})
    \cup (IF \E i \in 1..Len(ret.steps) : ret.steps[i].op = "gray_scale"
          THEN {"gray_scale_prob"} ELSE {})

\* the options the call set (non-null), other than the use_timm switch
SetOptions == {f \in Fields \ {"use_timm"} : CallCfg[f] # PyNone}

\* C6: in the built-in training path a warning is emitted iff at least one
\* option was set but not applied by the built pipeline, and it names
\* exactly those unused options, never one the pipeline applied.
C6_WarnsExactlyUnused ==
    (ret.status = "returned" /\ call.is_train /\ ~Truthy(CallCfg.use_timm)) =>
        /\ ret.kind = "Compose"
        /\ ret.warned <=> (SetOptions \ AppliedOptions # {})
        /\ ret.warned => ret.unused = SetOptions \ AppliedOptions

\* the statistics a returned pipeline normalises with
UsedStat(name) ==
    IF ret.kind = "timm" THEN ret.kwargs[name]
    ELSE ret.steps[Len(ret.steps)].a[name]

\* what C7 expects for an argument x: the reference triple for None,
\* (v, v, v) for a scalar v, x itself for a list or tuple
ExpectedStat(x, dflt) ==
    IF x = PyNone THEN dflt
    ELSE IF IsNumber(x) THEN PyTuple(<<x.v[1], x.v[1], x.v[1]>>)
    ELSE x

\* C7: for mean and std alike, None gives the reference triple, a scalar v
\* (0 included) gives (v, v, v), a list or tuple is used unchanged.
C7_StatsAsGiven ==
    ret.status = "returned" =>
        /\ UsedStat("mean") = ExpectedStat(call.mean, OPENAI_DATASET_MEAN)
        /\ UsedStat("std") = ExpectedStat(call.std, OPENAI_DATASET_STD)

\* a successful build of the built-in training path
BuiltinTrained ==
    ret.status = "returned" /\ call.is_train /\ ~Truthy(CallCfg.use_timm)

\* the training pipeline C8 describes, a wrapper step being present when
\* present(probability) holds
TrainSteps(present(_)) ==
    <<RandomResizedCrop(CollapseSize(call.image_size), CallCfg.scale), ConvertToRgb>>
    \o (IF present(CallCfg.color_jitter_prob)
        THEN <<ColorJitterStep(CallCfg.color_jitter, CallCfg.color_jitter_prob)>>
        ELSE <<>>)
    \o (IF present(CallCfg.gray_scale_prob)
        THEN <<GrayScaleStep(CallCfg.gray_scale_prob)>> ELSE <<>>)
    \o <<ToTensor, Normalize(UsedStat("mean"), UsedStat("std"))>>

IsSet(x) == x # PyNone

\* C8 as stated: the built-in training pipeline is random-resized-crop, RGB
\* coercion, a color_jitter step iff color_jitter_prob is set, a gray_scale
\* step iff gray_scale_prob is set, tensor conversion, normalization, in
\* this order and with nothing else.
C8_StepsIffSet ==
    BuiltinTrained => ret.kind = "Compose" /\ ret.steps = TrainSteps(IsSet)

\* C8 amended: as stated, except that a wrapper step is present iff its
\* probability is set and nonzero.
C8_StepsIffNonzero ==
    BuiltinTrained => ret.kind = "Compose" /\ ret.steps = TrainSteps(Truthy)

\* a built-in training pipeline holding both wrappers with probability 1
C8_Witness ==
    /\ BuiltinTrained
    /\ Len(ret.steps) = 6
    /\ ret.steps[3].op = "color_jitter" /\ ret.steps[3].a.p = PyFloat(PDen)
    /\ ret.steps[4].op = "gray_scale" /\ ret.steps[4].a.p = PyFloat(PDen)

\* C9: a successful evaluation build returns exactly
\* [ResizeMaxSize(image_size, fill_color), RGB, ToTensor, Normalize] with
\* resize_longest_max and [Resize, CenterCrop, RGB, ToTensor, Normalize]
\* without it, whatever aug_cfg holds; for a square image_size S the second
\* pipeline turns every image into an S x S one.
C9_EvalSteps ==
    (ret.status = "returned" /\ ~call.is_train) =>
        LET size == CollapseSize(call.image_size)
            tail == <<ConvertToRgb, ToTensor,
                      Normalize(ExpectedStat(call.mean, OPENAI_DATASET_MEAN),
                                ExpectedStat(call.std, OPENAI_DATASET_STD))>>
        IN  /\ ret.kind = "Compose" /\ ~ret.imported /\ ~ret.warned
            /\ call.resize_longest_max =>
                  ret.steps = <<ResizeMaxSizeStep(size, call.fill_color)>> \o tail
            /\ ~call.resize_longest_max =>
                  /\ ret.steps = <<ResizeStep(size), CenterCropStep(size)>> \o tail
                  /\ (size.k = "int" /\ run.status # "idle") =>
                        /\ run.status = "returned"
                        /\ ImgHeight(run.out) = size.v[1]
                        /\ ImgWidth(run.out) = size.v[1]

\* an evaluation pipeline for a square size, built from an aug_cfg asking
\* for the delegate and a jitter, called on a wider image
C9_Witness ==
    /\ ret.status = "returned" /\ ~call.is_train /\ ~call.resize_longest_max
    /\ call.image_size = PyTuple(<<2, 2>>)
    /\ Truthy(CallCfg.use_timm) /\ Truthy(CallCfg.color_jitter_prob)
    /\ run.status = "returned" /\ run.img = PilImage(3, 2)

PassedThrough == {"scale", "ratio", "re_prob", "re_count"}

\* C10: the external factory and its import are reached only when is_train
\* holds and use_timm is set; the options it gets never include use_timm,
\* color_jitter_prob or gray_scale_prob, always include hflip = 0 and
\* re_mode = 'pixel', carry interpolation = 'random' and color_jitter = None
\* unless these were set, and carry every other non-null option unchanged.
C10_TimmOptions ==
    /\ (ret.imported \/ ret.kind = "timm") => call.is_train /\ Truthy(CallCfg.use_timm)
    /\ ret.kind = "timm" =>
          LET kw == ret.kwargs
          IN  /\ DOMAIN kw \cap {"use_timm", "color_jitter_prob", "gray_scale_prob"} = {}
              /\ kw.hflip = PyFloat(0)
              /\ kw.re_mode = PyStr("pixel")
              /\ kw.interpolation = IF CallCfg.interpolation = PyNone
                                    THEN PyStr("random") ELSE CallCfg.interpolation
              /\ kw.color_jitter = CallCfg.color_jitter
              /\ \A k \in PassedThrough :
                    IF CallCfg[k] = PyNone THEN k \notin DOMAIN kw
                    ELSE k \in DOMAIN kw /\ kw[k] = CallCfg[k]

\* a delegated build whose aug_cfg also set color_jitter_prob and ratio
C10_Witness ==
    /\ ret.kind = "timm"
    /\ CallCfg.color_jitter_prob # PyNone
    /\ CallCfg.ratio # PyNone
    /\ "ratio" \in DOMAIN ret.kwargs

====
